---- MODULE Spec2Model ----
(***************************************************************************)
(* Class-sensi: the class store, the attendance store and its routes       *)
(* (src/server/storage.ts), the dashboard's end-of-class mutation          *)
(* (src/client/src/pages/dashboard.tsx) and the face detection service's   *)
(* behaviour matching (src/client/src/lib/face-detection.ts).              *)
(*                                                                         *)
(* Nullable values (null / undefined in the source) are sequences of       *)
(* length at most one: Null is <<>>, a present value v is <<v>>.           *)
(* Percentages are compared exactly (cross-multiplied); the source         *)
(* computes them in IEEE doubles.                                          *)
(***************************************************************************)
EXTENDS Integers, Sequences, FiniteSets, Bags, TLC

VARIABLES
    classes,            \* MemStorage.classes: class id -> Class
    attendanceRecords,  \* MemStorage.attendanceRecords, in insertion order
    behaviorWarnings,   \* MemStorage.behaviorWarnings, in insertion order
    now,                \* the wall clock read by new Date()
    running,            \* the route handlers suspended at an await of a
                        \* storage call, in the order they were suspended
    finalSnap,          \* history: per class, its records as the first of a
                        \* run of finalize passes left them and the number
                        \* of passes run (capped at 2) since a finalize
                        \* input last changed
    forcedEnd,          \* history: the classes the last class-store call
                        \* force-ended (startClass's loop)
    currentClass,       \* Dashboard: the id of the class the query cache holds
                        \* under /api/classes/current, or Null
    isMonitoring,       \* Dashboard state
    isRecording,        \* Dashboard state
    startMut,           \* startClassMutation: the class id of the pending
                        \* call, or Null
    endMut,             \* endClassMutation: pc is "idle", "finalize" (the
                        \* finalize request is out), "end" (the end request
                        \* is out), "success" or "error"; classId is the
                        \* argument; finalizeOk is finalizeResponse.ok
    toast,              \* the title of the last toast shown, or Null
    currentData,        \* the class object cached under /api/classes/current
                        \* (the fields the dashboard reads), or Null
    autoEnd,            \* the time at which the auto-end effect's pending
                        \* timeout calls the stop handler, or Null
    pendingWarnings,    \* the POST /api/warnings requests in flight (a bag)
    isInitialized,      \* FaceDetectionService.isInitialized
    modelsLoaded,       \* FaceDetectionService.modelsLoaded
    detectionInterval,  \* FaceDetectionService.detectionInterval, or Null
    recognizedStudents, \* FaceDetectionService.recognizedStudents: its keys
                        \* in insertion order
    lastDetectedFaces,  \* FaceDetectionService.lastDetectedFaces
    inflight,           \* the timer callbacks awaiting detectFaces: for each,
                        \* the class its onBehaviorDetected closes over
    capturedClass,      \* the currentClass seen by the onBehaviorDetected
                        \* callback that was passed to startDetection
    detectedFaces,      \* CameraFeed state: the last face list delivered
    detectedBehaviors,  \* CameraFeed state: the last behavior list delivered
    frame,              \* the frame behind the displayed lists: the face
                        \* detection path its cycle took and its blocks
                        \* whose face / phone / talking score passed
    timers,             \* the intervals of window.setInterval that are live
    scored,             \* the last 60 x 60 block the face scan scored: its
                        \* pixel statistics, its score and the outcome of
                        \* the scan's threshold test, or Null
    shown               \* AttendanceTable: the last row rendered (its record,
                        \* the time since the record's lastSeen on the
                        \* browser's clock and the warning cell), or Null

serverVars == <<classes, attendanceRecords, behaviorWarnings, now, running>>
histVars == <<finalSnap, forcedEnd>>
dashVars == <<currentClass, isMonitoring, isRecording, startMut, endMut, toast,
              currentData, autoEnd>>
detVars == <<pendingWarnings, isInitialized, modelsLoaded, detectionInterval,
             recognizedStudents, lastDetectedFaces, inflight, capturedClass,
             detectedFaces, detectedBehaviors, frame, scored, timers>>
viewVars == <<shown>>
clientVars == <<dashVars, detVars, viewVars>>

---------------------------------------------------------------------------
(* Bounds of the model *)

MaxClasses == 2
MaxRecords == 2
MaxClock == 2
MaxInflight == 2
MaxPending == 1
MaxWarnings == 1
MaxRunning == 2
MaxTimers == 2

(* Program constants *)

DefaultThreshold == 75
DefaultDuration == 90
LatePercentage == 25

---------------------------------------------------------------------------
(* Values *)

Null == <<>>
Some(v) == <<v>>
Val(n) == n[1]

\* JavaScript truthiness of a nullable boolean / nullable number.
TruthyBool(b) == b = Some(TRUE)
TruthyNum(n) == n # Null /\ Val(n) # 0
\* a || b on nullable numbers
OrElse(a, b) == IF TruthyNum(a) THEN a ELSE b

ClassIdPool == <<"c1", "c2", "c3", "c4">>
ClassIds == {ClassIdPool[i] : i \in 1..MaxClasses}
StudentIds == {"s1"}
\* The id strings a request body may carry (the routes check neither).
ReqIds == {"c1"} \cup StudentIds

Times == 0..MaxClock
Statuses == {"present", "late", "absent"}

Merge(existing, updates) ==
    [f \in DOMAIN existing |->
        IF f \in DOMAIN updates THEN updates[f] ELSE existing[f]]

Min(S) == CHOOSE x \in S : \A y \in S : x <= y

---------------------------------------------------------------------------
(* MemStorage: classes *)

NextClassId == ClassIdPool[Cardinality(DOMAIN classes) + 1]

\* insertClass.field ?? null, for a field the insert data may lack
OrNull(insertClass, field) ==
    IF field \in DOMAIN insertClass THEN insertClass[field] ELSE Null

\* createClass: isActive, attendanceThreshold and the two detection flags
\* are copied from the insert data (null when absent); startedAt and
\* endedAt start null.
createClass(insertClass) ==
    classes @@ (NextClassId :>
        [duration            |-> insertClass.duration,
         attendanceThreshold |-> insertClass.attendanceThreshold,
         mobileDetectionEnabled  |-> OrNull(insertClass, "mobileDetectionEnabled"),
         talkingDetectionEnabled |-> OrNull(insertClass, "talkingDetectionEnabled"),
         isActive            |-> insertClass.isActive,
         startedAt           |-> Null,
         endedAt             |-> Null])

\* updateClass: { ...existing, ...updates }; an unknown id changes nothing.
updateClass(id, updates) ==
    IF id \notin DOMAIN classes THEN classes
    ELSE [classes EXCEPT ![id] = Merge(classes[id], updates)]

\* Mutant: the loop clears isActive and leaves endedAt as it was.
EndOtherActive_NoEndedAt(id, cId) ==
    IF TruthyBool(classes[cId].isActive) /\ cId # id
    THEN [classes[cId] EXCEPT !.isActive = Some(FALSE)]
    ELSE classes[cId]

\* The loop of startClass over the other classes.
EndOtherActive(id, cId) ==
    IF TruthyBool(classes[cId].isActive) /\ cId # id
    THEN [classes[cId] EXCEPT !.isActive = Some(FALSE), !.endedAt = Some(now)]
    ELSE classes[cId]

startClass(id) ==
    IF id \notin DOMAIN classes THEN classes
    ELSE [cId \in DOMAIN classes |->
            IF cId = id
            THEN [classes[id] EXCEPT !.isActive = Some(TRUE),
                                     !.startedAt = Some(now),
                                     !.endedAt = Null]
            ELSE EndOtherActive(id, cId)]

endClass(id) ==
    IF id \notin DOMAIN classes THEN classes
    ELSE [classes EXCEPT ![id] =
            [classes[id] EXCEPT !.isActive = Some(FALSE), !.endedAt = Some(now)]]

---------------------------------------------------------------------------
(* MemStorage: attendance records *)

RecordIds == 1..Len(attendanceRecords)

\* getAttendanceRecords(classId): the indices of the class's records.
getAttendanceRecords(classId) ==
    {i \in RecordIds : attendanceRecords[i].classId = classId}

\* getAttendanceRecord(studentId, classId): the first record, in insertion
\* order, with that studentId and that classId; 0 stands for undefined.
getAttendanceRecord(studentId, classId) ==
    LET hits == {i \in RecordIds :
                    /\ attendanceRecords[i].studentId = studentId
                    /\ attendanceRecords[i].classId = classId}
    IN IF hits = {} THEN 0 ELSE Min(hits)

createAttendanceRecord(insertRecord) ==
    Append(attendanceRecords,
        [studentId      |-> insertRecord.studentId,
         classId        |-> insertRecord.classId,
         status         |-> insertRecord.status,
         timePresent    |-> insertRecord.timePresent,
         detectionCount |-> insertRecord.detectionCount,
         lastSeen       |-> insertRecord.lastSeen])

updateAttendanceRecord(id, updates) ==
    IF id \notin RecordIds THEN attendanceRecords
    ELSE [attendanceRecords EXCEPT ![id] = Merge(attendanceRecords[id], updates)]

\* The records of one class, in insertion order.
RecordsOf(recs, classId) == SelectSeq(recs, LAMBDA r : r.classId = classId)

---------------------------------------------------------------------------
(* The finalize rule *)

\* (timePresent / duration) * 100 >= k, as the source's number arithmetic
\* decides it: a zero duration gives Infinity (timePresent > 0), -Infinity
\* (timePresent < 0) or NaN (timePresent = 0), and NaN compares false.
PctGE(timePresent, duration, k) ==
    IF duration > 0 THEN timePresent * 100 >= k * duration
    ELSE IF duration < 0 THEN timePresent * 100 <= k * duration
    ELSE timePresent > 0

\* The threshold the finalize route compares with:
\* classInfo.attendanceThreshold || 75.
EffectiveThreshold(classInfo) ==
    Val(OrElse(classInfo.attendanceThreshold, Some(DefaultThreshold)))

\* The status computation of the finalize route for one record.
FinalStatus(record, classInfo) ==
    LET timePresent == Val(OrElse(record.timePresent, Some(0)))
    IN IF PctGE(timePresent, classInfo.duration, EffectiveThreshold(classInfo))
       THEN "present"
       ELSE IF timePresent > 0 /\ PctGE(timePresent, classInfo.duration, LatePercentage)
       THEN "late"
       ELSE "absent"

\* Mutant: the finalize pass also consumes the accrued time.
FinalizeUpdate_ResetTime(record, classInfo) ==
    [status |-> FinalStatus(record, classInfo), timePresent |-> Some(0)]

\* What the finalize route writes to one record: { status: finalStatus }.
FinalizeUpdate(record, classInfo) == [status |-> FinalStatus(record, classInfo)]

\* Mutant: the loop runs over the records of every class.
FinalizeRecords_AllClasses(classId, n) ==
    [i \in RecordIds |->
        Merge(attendanceRecords[i],
              FinalizeUpdate(attendanceRecords[i], classes[classId]))]

\* The record store after the finalize loop has updated the class's first
\* n records (all of them when the loop runs to its end).
FinalizeRecords(classId, n) ==
    LET ids == getAttendanceRecords(classId)
        done == {i \in ids : Cardinality({j \in ids : j <= i}) <= n}
    IN [i \in RecordIds |->
          IF i \in done
          THEN Merge(attendanceRecords[i],
                     FinalizeUpdate(attendanceRecords[i], classes[classId]))
          ELSE attendanceRecords[i]]

NoSnap == [c \in ClassIds |-> Null]

---------------------------------------------------------------------------
(* The routes *)

\* POST /api/classes
PostClasses(insertClass) ==
    /\ Cardinality(DOMAIN classes) < MaxClasses
    /\ classes' = createClass(insertClass)
    /\ forcedEnd' = {}
    /\ UNCHANGED <<attendanceRecords, behaviorWarnings, now, running, finalSnap>>
    /\ UNCHANGED clientVars

\* PUT /api/classes/:id
PutClass(id, updates) ==
    /\ classes' = updateClass(id, updates)
    /\ finalSnap' = NoSnap
    /\ forcedEnd' = {}
    /\ UNCHANGED <<attendanceRecords, behaviorWarnings, now, running>>
    /\ UNCHANGED clientVars

\* POST /api/classes/:id/start: what the handler does to the stores.
StartRoute(id) ==
    /\ classes' = startClass(id)
    /\ forcedEnd' = IF id \in DOMAIN classes
                    THEN {cId \in DOMAIN classes :
                            cId # id /\ TruthyBool(classes[cId].isActive)}
                    ELSE {}
    /\ UNCHANGED <<attendanceRecords, behaviorWarnings, now, running, finalSnap>>

PostClassStart(id) == StartRoute(id) /\ UNCHANGED clientVars

\* POST /api/classes/:id/end: what the handler does to the stores.
EndRoute(id) ==
    /\ classes' = endClass(id)
    /\ forcedEnd' = {}
    /\ UNCHANGED <<attendanceRecords, behaviorWarnings, now, running, finalSnap>>

PostClassEnd(id) == EndRoute(id) /\ UNCHANGED clientVars

\* POST /api/attendance/update-from-detection; the four body fields are
\* nullable (absent).  The lookup passes (classId, studentId) to
\* getAttendanceRecord(studentId, classId), as the route does.
PostUpdateFromDetection(classId, studentId, timePresent, lastSeen) ==
    /\ IF classId = Null \/ studentId = Null
       THEN UNCHANGED <<attendanceRecords, finalSnap>>
       ELSE LET attendanceRecord == getAttendanceRecord(Val(classId), Val(studentId))
                seen == IF lastSeen # Null THEN lastSeen ELSE Some(now)
            IN /\ IF attendanceRecord = 0
                  THEN /\ Len(attendanceRecords) < MaxRecords
                       /\ attendanceRecords' = createAttendanceRecord(
                            [studentId      |-> Val(studentId),
                             classId        |-> Val(classId),
                             status         |-> "present",
                             timePresent    |-> OrElse(timePresent, Some(0)),
                             detectionCount |-> Null,
                             lastSeen       |-> seen])
                  ELSE attendanceRecords' = updateAttendanceRecord(attendanceRecord,
                            [timePresent |-> OrElse(timePresent,
                                               attendanceRecords[attendanceRecord].timePresent),
                             lastSeen    |-> seen])
               /\ finalSnap' = NoSnap
    /\ UNCHANGED <<classes, behaviorWarnings, now, running, forcedEnd>>
    /\ UNCHANGED clientVars

\* PUT /api/attendance/:id
PutAttendance(id, updates) ==
    /\ attendanceRecords' = updateAttendanceRecord(id, updates)
    /\ finalSnap' = NoSnap
    /\ UNCHANGED <<classes, behaviorWarnings, now, running, forcedEnd>>
    /\ UNCHANGED clientVars

\* POST /api/attendance/finalize; classId is nullable (absent): what the
\* handler does to the stores.
FinalizeRoute(classId) ==
    /\ IF classId = Null \/ Val(classId) \notin DOMAIN classes
       THEN UNCHANGED <<attendanceRecords, finalSnap>>
       ELSE /\ attendanceRecords' = FinalizeRecords(Val(classId), Len(attendanceRecords))
            /\ finalSnap' = [finalSnap EXCEPT ![Val(classId)] =
                    IF @ = Null
                    THEN Some([records |-> RecordsOf(attendanceRecords', Val(classId)),
                               runs    |-> 1])
                    ELSE Some([records |-> Val(@).records, runs |-> 2])]
    /\ UNCHANGED <<classes, behaviorWarnings, now, running, forcedEnd>>

PostFinalize(classId) == FinalizeRoute(classId) /\ UNCHANGED clientVars

\* A request handler starts when the event loop takes its request.  Every
\* MemStorage method is an async function without I/O, so the continuation
\* of a suspended handler is a microtask, and the microtasks are run before
\* the event loop takes the next request.
CanStartRequest_AnyTime == TRUE

CanStartRequest == running = <<>>

Without(seq, k) ==
    [i \in 1..(Len(seq) - 1) |-> IF i < k THEN seq[i] ELSE seq[i + 1]]

\* POST /api/attendance/finalize up to its first await: getClass has read
\* the class.
FinalizeBegin(classId) ==
    /\ CanStartRequest
    /\ Len(running) < MaxRunning
    /\ running' = Append(running,
            [route |-> "finalize", pc |-> "class", classId |-> classId,
             classInfo |-> IF classId \in DOMAIN classes THEN Some(classes[classId])
                           ELSE Null,
             records |-> <<>>, i |-> 0])
    /\ UNCHANGED <<classes, attendanceRecords, behaviorWarnings, now, histVars>>
    /\ UNCHANGED clientVars

\* The records getAttendanceRecords returns, in insertion order: each is
\* the stored object of that moment.
RecordList(classId) ==
    LET idx == SelectSeq([i \in RecordIds |-> i],
                         LAMBDA i : attendanceRecords[i].classId = classId)
    IN  [j \in 1..Len(idx) |->
            [id |-> idx[j], timePresent |-> attendanceRecords[idx[j]].timePresent]]

\* The finalize handler k resumes after an await and runs to its next one:
\* it answers 404, or calls getAttendanceRecords, or updates the status of
\* its next record, or answers with the updated records.
FinalizeResume(k) ==
    /\ k \in DOMAIN running
    /\ running[k].route = "finalize"
    /\ LET h == running[k] IN
       CASE h.pc = "class" /\ h.classInfo = Null ->
              /\ running' = Without(running, k)
              /\ UNCHANGED <<attendanceRecords, finalSnap>>
         [] h.pc = "class" /\ h.classInfo # Null ->
              /\ running' = [running EXCEPT ![k] =
                    [h EXCEPT !.pc = "loop", !.records = RecordList(h.classId), !.i = 1]]
              /\ UNCHANGED <<attendanceRecords, finalSnap>>
         [] h.pc = "loop" /\ h.i <= Len(h.records) ->
              /\ attendanceRecords' = updateAttendanceRecord(h.records[h.i].id,
                    FinalizeUpdate(h.records[h.i], Val(h.classInfo)))
              /\ running' = [running EXCEPT ![k] = [h EXCEPT !.i = h.i + 1]]
              /\ UNCHANGED finalSnap
         [] OTHER ->
              /\ running' = Without(running, k)
              /\ finalSnap' = [finalSnap EXCEPT ![h.classId] =
                    IF @ = Null
                    THEN Some([records |-> RecordsOf(attendanceRecords, h.classId),
                               runs    |-> 1])
                    ELSE Some([records |-> Val(@).records, runs |-> 2])]
              /\ UNCHANGED attendanceRecords
    /\ UNCHANGED <<classes, behaviorWarnings, now, forcedEnd>>
    /\ UNCHANGED clientVars

\* POST /api/attendance/update-from-detection up to its first await:
\* getAttendanceRecord has looked the record up.
UpdateBegin(classId, studentId, timePresent) ==
    /\ CanStartRequest
    /\ Len(running) < MaxRunning
    /\ LET found == getAttendanceRecord(classId, studentId)
       IN  running' = Append(running,
                [route |-> "update", classId |-> classId, studentId |-> studentId,
                 timePresent |-> timePresent, found |-> found,
                 foundTime |-> IF found = 0 THEN Null
                               ELSE attendanceRecords[found].timePresent])
    /\ UNCHANGED <<classes, attendanceRecords, behaviorWarnings, now, histVars>>
    /\ UNCHANGED clientVars

\* The update handler k resumes: it creates the record or updates the one
\* it found, and answers.
UpdateResume(k) ==
    /\ k \in DOMAIN running
    /\ running[k].route = "update"
    /\ LET h == running[k] IN
       IF h.found = 0
       THEN /\ Len(attendanceRecords) < MaxRecords
            /\ attendanceRecords' = createAttendanceRecord(
                    [studentId      |-> h.studentId,
                     classId        |-> h.classId,
                     status         |-> "present",
                     timePresent    |-> OrElse(h.timePresent, Some(0)),
                     detectionCount |-> Null,
                     lastSeen       |-> Some(now)])
       ELSE attendanceRecords' = updateAttendanceRecord(h.found,
                    [timePresent |-> OrElse(h.timePresent, h.foundTime),
                     lastSeen    |-> Some(now)])
    /\ running' = Without(running, k)
    /\ finalSnap' = NoSnap
    /\ UNCHANGED <<classes, behaviorWarnings, now, forcedEnd>>
    /\ UNCHANGED clientVars

\* Requests whose handler has a single storage call.
ClassCreateRequest(insertClass) == CanStartRequest /\ PostClasses(insertClass)
RecordEditRequest(id, updates) == CanStartRequest /\ PutAttendance(id, updates)

\* Time passes.
Tick ==
    /\ now < MaxClock
    /\ now' = now + 1
    /\ UNCHANGED <<classes, attendanceRecords, behaviorWarnings, running, finalSnap, forcedEnd>>
    /\ UNCHANGED clientVars

---------------------------------------------------------------------------
(* Dashboard *)

EndMutIdle == [pc |-> "idle", classId |-> Null, finalizeOk |-> Null]

\* The auto-end effect, run when the cached class or isMonitoring changes:
\* its cleanup clears the timeout it set before, and with a cached class
\* that has a startedAt it sets a timeout for startedAt + (duration || 90)
\* minutes while monitoring (an end time already reached calls the stop
\* handler at once, which is the timeout being due).
AutoEndEffect(data, monitoring) ==
    IF data # Null /\ monitoring /\ Val(data).startedAt # Null
    THEN Some(Val(Val(data).startedAt)
              + (IF Val(data).duration # 0 THEN Val(data).duration ELSE DefaultDuration))
    ELSE Null

\* handleClassChange: the selected class, found in the class list, becomes
\* the cached current class.
HandleClassChange(classId) ==
    /\ currentClass' = IF classId \in DOMAIN classes THEN Some(classId) ELSE currentClass
    /\ currentData' = IF classId \in DOMAIN classes THEN Some(classes[classId]) ELSE currentData
    /\ autoEnd' = AutoEndEffect(currentData', isMonitoring)
    /\ UNCHANGED <<isMonitoring, isRecording, startMut, endMut, toast>>
    /\ UNCHANGED <<serverVars, histVars, detVars, viewVars>>

\* handleStartMonitoring
HandleStartMonitoring ==
    /\ startMut = Null
    /\ IF currentClass # Null
       THEN /\ startMut' = currentClass
            /\ isRecording' = TRUE
            /\ UNCHANGED toast
       ELSE /\ toast' = Some("No Active Class")
            /\ UNCHANGED <<startMut, isRecording>>
    /\ UNCHANGED <<currentClass, currentData, autoEnd, isMonitoring, endMut>>
    /\ UNCHANGED <<serverVars, histVars, detVars, viewVars>>

\* handleRecordingChange(recording), called by the camera feed
HandleRecordingChange(recording) ==
    /\ startMut = Null
    /\ isRecording' = recording
    /\ startMut' = IF recording /\ currentClass # Null /\ ~isMonitoring
                   THEN currentClass ELSE startMut
    /\ UNCHANGED <<currentClass, currentData, autoEnd, isMonitoring, endMut, toast>>
    /\ UNCHANGED <<serverVars, histVars, detVars, viewVars>>

\* startClassMutation settles: the start request is answered (ok) or fails.
StartMutSettle(ok) ==
    /\ startMut # Null
    /\ startMut' = Null
    /\ IF ok
       THEN /\ StartRoute(Val(startMut))
            /\ isMonitoring' = TRUE
            /\ autoEnd' = AutoEndEffect(currentData, TRUE)
            /\ toast' = Some("Monitoring Started Successfully!")
       ELSE /\ toast' = Some("Failed to Start Monitoring")
            /\ UNCHANGED <<serverVars, histVars, isMonitoring, autoEnd>>
    /\ UNCHANGED <<currentClass, currentData, isRecording, endMut>>
    /\ UNCHANGED <<detVars, viewVars>>

\* handleStopMonitoring: endClassMutation.mutate(currentClass.id); the
\* mutation function sends the finalize request first.
HandleStopMonitoring ==
    /\ endMut.pc \notin {"finalize", "end"}
    /\ endMut' = IF currentClass # Null /\ isMonitoring
                 THEN [pc |-> "finalize", classId |-> currentClass, finalizeOk |-> Null]
                 ELSE endMut
    /\ UNCHANGED <<currentClass, currentData, autoEnd, isMonitoring, isRecording, startMut, toast>>
    /\ UNCHANGED <<serverVars, histVars, detVars, viewVars>>

\* onError of endClassMutation
EndMutError ==
    /\ endMut' = [endMut EXCEPT !.pc = "error"]
    /\ toast' = Some("Failed to End Class")
    /\ UNCHANGED <<currentClass, currentData, autoEnd, isMonitoring, isRecording, startMut>>
    /\ UNCHANGED <<detVars, viewVars>>

\* The finalize request of endClassMutation is answered.  outcome "ok": the
\* route runs to its end; "error": a storage call of the route rejects after
\* n records were updated and its catch answers 500; "reject": the fetch
\* itself rejects.  A response that is not ok is only logged.
EndMutFinalize(outcome, n) ==
    /\ endMut.pc = "finalize"
    /\ LET classId == Val(endMut.classId) IN
       CASE outcome = "ok" ->
              /\ FinalizeRoute(Some(classId))
              /\ endMut' = [endMut EXCEPT !.pc = "end",
                                          !.finalizeOk = Some(classId \in DOMAIN classes)]
              /\ UNCHANGED <<currentClass, currentData, autoEnd, isMonitoring, isRecording, startMut, toast>>
              /\ UNCHANGED <<detVars, viewVars>>
         [] outcome = "error" ->
              /\ classId \in DOMAIN classes
              /\ n < Cardinality(getAttendanceRecords(classId)) \/ n = 0
              /\ attendanceRecords' = FinalizeRecords(classId, n)
              /\ endMut' = [endMut EXCEPT !.pc = "end", !.finalizeOk = Some(FALSE)]
              /\ UNCHANGED <<classes, behaviorWarnings, now, running, histVars>>
              /\ UNCHANGED <<currentClass, currentData, autoEnd, isMonitoring, isRecording, startMut, toast>>
              /\ UNCHANGED <<detVars, viewVars>>
         [] outcome = "reject" ->
              /\ EndMutError
              /\ UNCHANGED <<serverVars, histVars>>

\* The end request of endClassMutation is answered: a response that is ok
\* is the mutation's success, anything else throws.
EndMutEnd(outcome) ==
    /\ endMut.pc = "end"
    /\ LET classId == Val(endMut.classId) IN
       IF outcome = "ok" /\ classId \in DOMAIN classes
       THEN /\ EndRoute(classId)
            /\ endMut' = [endMut EXCEPT !.pc = "success"]
            /\ isMonitoring' = FALSE
            /\ isRecording' = FALSE
            /\ autoEnd' = AutoEndEffect(currentData, FALSE)
            /\ toast' = Some("Class Ended")
            /\ UNCHANGED <<currentClass, currentData, startMut>>
            /\ UNCHANGED <<detVars, viewVars>>
       ELSE /\ EndMutError
            /\ UNCHANGED <<serverVars, histVars>>

\* The auto-end effect's timeout is due: it calls handleStopMonitoring with
\* the class and the monitoring flag of the render that set it.
AutoEndFires ==
    /\ autoEnd # Null
    /\ now >= Val(autoEnd)
    /\ autoEnd' = Null
    /\ endMut' = IF endMut.pc \in {"finalize", "end"}
                 THEN endMut
                 ELSE [pc |-> "finalize", classId |-> currentClass, finalizeOk |-> Null]
    /\ UNCHANGED <<currentClass, currentData, isMonitoring, isRecording, startMut, toast>>
    /\ UNCHANGED <<serverVars, histVars, detVars, viewVars>>

\* getCurrentClass: the first class of the map that is active, or Null
getCurrentClass ==
    IF \E i \in 1..Len(ClassIdPool) :
            ClassIdPool[i] \in DOMAIN classes /\ TruthyBool(classes[ClassIdPool[i]].isActive)
    THEN Some(ClassIdPool[Min({i \in 1..Len(ClassIdPool) :
                    /\ ClassIdPool[i] \in DOMAIN classes
                    /\ TruthyBool(classes[ClassIdPool[i]].isActive)})])
    ELSE Null

\* The query of /api/classes/current is fetched again (on mount, or whenever
\* the query client refetches it): the route answers the active class; with
\* no active class its body is empty, the fetch fails and the cache keeps
\* what it held.
RefetchCurrent ==
    /\ currentClass' = IF getCurrentClass # Null THEN getCurrentClass ELSE currentClass
    /\ currentData' = IF getCurrentClass # Null
                      THEN Some(classes[Val(getCurrentClass)]) ELSE currentData
    /\ autoEnd' = AutoEndEffect(currentData', isMonitoring)
    /\ UNCHANGED <<isMonitoring, isRecording, startMut, endMut, toast>>
    /\ UNCHANGED <<serverVars, histVars, detVars, viewVars>>

\* A minute passes in the browser; a timeout that is due runs first.
TickDashboard ==
    /\ IF autoEnd = Null THEN TRUE ELSE now < Val(autoEnd)
    /\ Tick

---------------------------------------------------------------------------
(* AttendanceTable *)

RecentMinutes == 5

\* getWarningBadge.  lastSeen is Null (undefined) or the value passed with
\* the time, in seconds, from it to the browser's new Date(); a value that
\* is not a Date has no getTime and the call throws a TypeError.
getWarningBadge(timePresent, hasWarnings, lastSeen) ==
    IF hasWarnings THEN "mobile"
    ELSE IF lastSeen # Null /\ ~Val(lastSeen).isDate THEN "TypeError"
    ELSE IF lastSeen # Null /\ (Val(lastSeen).elapsed \div 60) > RecentMinutes
    THEN "not_detected"
    ELSE IF timePresent = 0 THEN "not_detected"
    ELSE "none"

\* One row of the table is rendered for the record at position id of the
\* records fetched from GET /api/attendance: the response is JSON, so a
\* stored lastSeen reaches the row as a string; hasWarnings is the
\* constant false of the row.
RenderRow(id, elapsed) ==
    /\ id \in RecordIds
    /\ LET attendance == attendanceRecords[id]
           timePresent == Val(OrElse(attendance.timePresent, Some(0)))
           hasWarnings == FALSE
           lastSeen == IF attendance.lastSeen = Null THEN Null
                       ELSE Some([isDate |-> FALSE, elapsed |-> elapsed])
       IN  shown' = Some([record  |-> id,
                          elapsed |-> IF attendance.lastSeen = Null THEN Null
                                      ELSE Some(elapsed),
                          hasWarnings |-> hasWarnings,
                          badge   |-> getWarningBadge(timePresent, hasWarnings, lastSeen)])
    /\ UNCHANGED <<serverVars, histVars, dashVars, detVars>>

---------------------------------------------------------------------------
(* FaceDetectionService and the CameraFeed callbacks *)

MatchRadius == 200
MobileLimit == 2
TalkingLimit == 1
FaceLimit == 6
OverlapDistance == 40
FaceWidth == 80
FaceHeight == 100

Abs(n) == IF n < 0 THEN 0 - n ELSE n
Max3(a, b, c) == CHOOSE m \in {a, b, c} : \A k \in {a, b, c} : k <= m

\* The squared distance between a cached face's corner and a window's
\* corner; the source compares the square roots.
DistSq(face, x, y) == (face.x - x) * (face.x - x) + (face.y - y) * (face.y - y)

\* findNearestDetectedFace: the student of the first cached face that is
\* strictly closest among the faces less than MatchRadius away, or Null.
findNearestDetectedFace_NoRadius(faces, x, y) ==
    LET near == DOMAIN faces
        best == CHOOSE i \in near : \A j \in near :
                    \/ DistSq(faces[i], x, y) < DistSq(faces[j], x, y)
                    \/ DistSq(faces[i], x, y) = DistSq(faces[j], x, y) /\ i <= j
    IN  IF near = {} THEN Null ELSE Some(faces[best].studentId)

findNearestDetectedFace(faces, x, y) ==
    LET near == {i \in DOMAIN faces : DistSq(faces[i], x, y) < MatchRadius * MatchRadius}
        best == CHOOSE i \in near : \A j \in near :
                    \/ DistSq(faces[i], x, y) < DistSq(faces[j], x, y)
                    \/ DistSq(faces[i], x, y) = DistSq(faces[j], x, y) /\ i <= j
    IN  IF near = {} THEN Null ELSE Some(faces[best].studentId)

\* The order in which the nested y / x loops of a scan visit the windows.
RECURSIVE RowMajor(_)
RowMajor(S) ==
    IF S = {} THEN <<>>
    ELSE LET p == CHOOSE p \in S : \A q \in S :
                      p[2] < q[2] \/ (p[2] = q[2] /\ p[1] <= q[1])
         IN  <<p>> \o RowMajor(S \ {p})

\* The body of both scans: the windows whose score passed, in scan order,
\* each pushed only when a cached face is near it.
ScanWindows(faces, type, windows) ==
    LET hit == SelectSeq(RowMajor(windows),
                         LAMBDA p : findNearestDetectedFace(faces, p[1], p[2]) # Null)
    IN  [i \in 1..Len(hit) |->
            [type |-> type,
             studentId |-> findNearestDetectedFace(faces, hit[i][1], hit[i][2]),
             boundingBox |-> [x |-> hit[i][1], y |-> hit[i][2]]]]

Take_NoLimit(seq, n) == seq

Take(seq, n) == SubSeq(seq, 1, Min({n, Len(seq)}))

\* detectMobilePhone / detectTalking: windows are the blocks whose score
\* passed the scan's threshold.
detectMobilePhone(faces, windows) == Take(ScanWindows(faces, "mobile", windows), MobileLimit)
detectTalking(faces, windows) == Take(ScanWindows(faces, "talking", windows), TalkingLimit)

\* detectBehaviors: fr holds the passing windows of the frame for each scan
\* and the point at which analysing it throws, if any; the catch returns
\* the behaviors pushed so far.
detectBehaviors(faces, fr) ==
    CASE fr.fault = "behaviors" -> <<>>
      [] fr.fault = "talking" -> detectMobilePhone(faces, fr.mobile)
      [] OTHER -> detectMobilePhone(faces, fr.mobile) \o detectTalking(faces, fr.talking)

\* isSkinTone
isSkinTone(r, g, b) ==
    /\ r > 95 /\ g > 40 /\ b > 20
    /\ r > g /\ r > b
    /\ Abs(r - g) > 15
    /\ Max3(r, g, b) - Min({r, g, b}) > 15

\* The pixel loop of calculateFaceScore over a region given as runs
\* <<pixel, count>> of equal pixels: skinPixels, totalPixels and three
\* times brightnessSum (the sum of r + g + b).
RECURSIVE RegionStats(_)
RegionStats(region) ==
    IF region = <<>> THEN [skinPixels |-> 0, totalPixels |-> 0, brightness3 |-> 0]
    ELSE LET px == Head(region)[1]
             n == Head(region)[2]
             rest == RegionStats(Tail(region))
         IN  [skinPixels  |-> rest.skinPixels
                                + (IF isSkinTone(px[1], px[2], px[3]) THEN n ELSE 0),
              totalPixels |-> rest.totalPixels + n,
              brightness3 |-> rest.brightness3 + n * (px[1] + px[2] + px[3])]

\* The weights of the three tests, in tenths.  The source adds 0.4, 0.3
\* and 0.3 in doubles; every partial sum (0.4, 0.3, 0.7, 0.6, 1.0) is the
\* double of its decimal, so tenths compare with 6 as the sums with 0.6.
SkinRatioWeight == 4
BrightnessWeight == 3
SkinCountWeight == 3
FaceThreshold == 6

\* Mutant: the skin pixel count adds to the score only with the ratio.
ScoreOf_CountNeedsRatio(st) ==
    LET ratioOk == /\ st.totalPixels > 0
                   /\ 5 * st.skinPixels > st.totalPixels
                   /\ 5 * st.skinPixels < 4 * st.totalPixels
    IN  (IF ratioOk THEN SkinRatioWeight ELSE 0)
        + (IF /\ st.totalPixels > 0
              /\ st.brightness3 > 3 * 60 * st.totalPixels
              /\ st.brightness3 < 3 * 200 * st.totalPixels
           THEN BrightnessWeight ELSE 0)
        + (IF ratioOk /\ st.skinPixels > 200 THEN SkinCountWeight ELSE 0)

\* The score calculateFaceScore computes from the statistics: skinRatio is
\* skinPixels / totalPixels, avgBrightness is brightnessSum / totalPixels
\* (NaN, which fails every comparison, when the region has no pixel).
ScoreOf(st) ==
    (IF /\ st.totalPixels > 0
        /\ 5 * st.skinPixels > st.totalPixels
        /\ 5 * st.skinPixels < 4 * st.totalPixels
     THEN SkinRatioWeight ELSE 0)
    + (IF /\ st.totalPixels > 0
          /\ st.brightness3 > 3 * 60 * st.totalPixels
          /\ st.brightness3 < 3 * 200 * st.totalPixels
       THEN BrightnessWeight ELSE 0)
    + (IF st.skinPixels > 200 THEN SkinCountWeight ELSE 0)

calculateFaceScore(region) == ScoreOf(RegionStats(region))

\* One iteration of the scan of analyzeImageForFaces: the block is scored
\* and the score is compared with the threshold.
ScoreBlock(region) ==
    /\ scored' = Some([stats    |-> RegionStats(region),
                       score    |-> calculateFaceScore(region),
                       accepted |-> calculateFaceScore(region) > FaceThreshold])
    /\ UNCHANGED <<serverVars, histVars, dashVars, viewVars>>
    /\ UNCHANGED <<pendingWarnings, isInitialized, modelsLoaded, detectionInterval,
                   recognizedStudents, lastDetectedFaces, inflight, capturedClass,
                   detectedFaces, detectedBehaviors, frame, timers>>

\* analyzeImageForFaces: windows are the blocks whose face score passed;
\* a block is accepted unless an accepted block lies less than
\* OverlapDistance from it on both axes, and the first FaceLimit are kept.
\* The random part of an accepted region's width and height is left out.
AcceptApart_NoSuppression(blocks, faces) ==
    faces \o [i \in 1..Len(blocks) |->
                [x |-> blocks[i][1], y |-> blocks[i][2],
                 width |-> FaceWidth, height |-> FaceHeight]]

RECURSIVE AcceptApart(_, _)
AcceptApart(blocks, faces) ==
    IF blocks = <<>> THEN faces
    ELSE LET p == Head(blocks)
             overlaps == \E i \in DOMAIN faces :
                            /\ Abs(faces[i].x - p[1]) < OverlapDistance
                            /\ Abs(faces[i].y - p[2]) < OverlapDistance
         IN  AcceptApart(Tail(blocks),
                         IF overlaps THEN faces
                         ELSE Append(faces, [x |-> p[1], y |-> p[2],
                                             width |-> FaceWidth, height |-> FaceHeight]))

analyzeImageForFaces(windows) == Take(AcceptApart(RowMajor(windows), <<>>), FaceLimit)

\* matchFacesToStudents: region i is given the i-th registered student.
matchFacesToStudents_KeepAll(regions) ==
    [i \in 1..Len(regions) |->
        [x |-> regions[i].x, y |-> regions[i].y,
         width |-> regions[i].width, height |-> regions[i].height,
         studentId |-> IF i <= Len(recognizedStudents)
                       THEN Some(recognizedStudents[i]) ELSE Null]]

matchFacesToStudents(regions) ==
    LET n == Min({Len(regions), Len(recognizedStudents)})
    IN  [i \in 1..n |-> [x |-> regions[i].x, y |-> regions[i].y,
                         width |-> regions[i].width, height |-> regions[i].height,
                         studentId |-> Some(recognizedStudents[i])]]

\* detectFacesBasic under detectFaces: an error thrown while the frame is
\* drawn or analysed is caught and no face is returned.
detectFacesBasic(fr) ==
    IF fr.fault = "faces" THEN <<>>
    ELSE matchFacesToStudents(analyzeImageForFaces(fr.faces))

\* The timer after a cycle: the catch blocks of a cycle only log.
TimerAfter_ClearedOnError(fault) == IF fault = "none" THEN detectionInterval ELSE Null

TimerAfter(fault) == detectionInterval

\* The faces detectFacesWithFaceApi keeps: the detections with a best match.
MatchedFaces(detections) ==
    LET kept == SelectSeq(detections, LAMBDA d : d.match # Null)
    IN  [i \in 1..Len(kept) |-> [x |-> kept[i].x, y |-> kept[i].y,
                                 width |-> kept[i].width, height |-> kept[i].height,
                                 studentId |-> kept[i].match]]

\* The cache entries written from the matched faces.
CacheOf(faces) ==
    [i \in 1..Len(faces) |-> [x |-> faces[i].x, y |-> faces[i].y,
                              studentId |-> Val(faces[i].studentId)]]

\* Mutant: the basic detection caches its faces as the face-api path does.
CacheAfterBasic_Written(faces) == CacheOf(faces)

\* The cache after detectFacesBasic has returned faces: it assigns nothing
\* to lastDetectedFaces.
CacheAfterBasic(faces) == lastDetectedFaces

RECURSIVE SeqToBag(_)
SeqToBag(seq) ==
    IF seq = <<>> THEN EmptyBag ELSE SetToBag({Head(seq)}) (+) SeqToBag(Tail(seq))

\* handleBehaviorDetected as captured by the callback: one createWarning
\* request per behavior that carries a studentId, none without a class.
WarningRequests(cls, behaviors) ==
    IF cls = Null THEN <<>>
    ELSE LET named == SelectSeq(behaviors, LAMBDA b : b.studentId # Null)
         IN  [i \in 1..Len(named) |->
                [studentId |-> Val(named[i].studentId), classId |-> Val(cls),
                 warningType |-> named[i].type, isActive |-> Null]]

\* MemStorage.createBehaviorWarning
createBehaviorWarning(insertWarning) ==
    Append(behaviorWarnings,
           [studentId |-> insertWarning.studentId,
            classId |-> insertWarning.classId,
            warningType |-> insertWarning.warningType,
            isActive |-> insertWarning.isActive,
            createdAt |-> now])

\* MemStorage.getBehaviorWarnings: classId filters when it is given,
\* isActive filters when it is not undefined.
getBehaviorWarnings(classId, isActive) ==
    SelectSeq(behaviorWarnings,
              LAMBDA w : /\ classId = Null \/ w.classId = Val(classId)
                         /\ isActive = Null \/ w.isActive = isActive)

\* MemStorage.dismissBehaviorWarning; warnings are identified by their
\* position.
dismissBehaviorWarning(id) ==
    IF id \in DOMAIN behaviorWarnings
    THEN [behaviorWarnings EXCEPT ![id] = Merge(@, [isActive |-> Some(FALSE)])]
    ELSE behaviorWarnings

\* GET /api/warnings: the isActive filter is the comparison of the query
\* parameter with "true", given or not.
GetWarnings(classId, isActiveParam) ==
    getBehaviorWarnings(classId, Some(isActiveParam = Some("true")))

\* PUT /api/warnings/:id/dismiss
PutWarningDismiss(id) ==
    /\ behaviorWarnings' = dismissBehaviorWarning(id)
    /\ UNCHANGED <<classes, attendanceRecords, now, running, histVars, clientVars>>

\* POST /api/warnings, sent by any client
StoreWarning(insertWarning) ==
    /\ Len(behaviorWarnings) < MaxWarnings
    /\ behaviorWarnings' = createBehaviorWarning(insertWarning)
    /\ UNCHANGED <<classes, attendanceRecords, now, running, histVars, clientVars>>

\* initialize: the models load or fail to load, the profiles are fetched.
Initialize(loaded, roster) ==
    /\ ~isInitialized
    /\ isInitialized' = TRUE
    /\ modelsLoaded' = loaded
    /\ recognizedStudents' = roster
    /\ UNCHANGED <<pendingWarnings, detectionInterval, lastDetectedFaces, inflight,
                   capturedClass, detectedFaces, detectedBehaviors, frame, scored, timers>>
    /\ UNCHANGED <<serverVars, histVars, dashVars, viewVars>>

\* stopDetection: the live intervals once the held one, if any, is cleared.
stopDetection ==
    IF detectionInterval # Null THEN timers \ {Val(detectionInterval)} ELSE timers

\* The id window.setInterval returns: one that no live interval has.
NewTimerId(live) == Min({i \in 1..(Cardinality(live) + 1) : i \notin live})

\* Mutant: startDetection schedules without clearing the held interval.
KeptAtStart_NoStop == timers

\* The live intervals startDetection leaves before it schedules its own:
\* it calls stopDetection first.
KeptAtStart == stopDetection

\* CameraFeed.startFaceDetection: reload the profiles, then startDetection
\* with callbacks that close over the dashboard's handlers of this render.
StartFaceDetection(roster) ==
    /\ recognizedStudents' = roster
    /\ IF isInitialized
       THEN /\ Cardinality(KeptAtStart) < MaxTimers
            /\ timers' = KeptAtStart \cup {NewTimerId(KeptAtStart)}
            /\ detectionInterval' = Some(NewTimerId(KeptAtStart))
            /\ capturedClass' = currentClass
       ELSE UNCHANGED <<detectionInterval, capturedClass, timers>>
    /\ UNCHANGED <<pendingWarnings, isInitialized, modelsLoaded, lastDetectedFaces,
                   inflight, detectedFaces, detectedBehaviors, frame, scored>>
    /\ UNCHANGED <<serverVars, histVars, dashVars, viewVars>>

NoFrame == [path |-> "none", faces |-> {}, mobile |-> {}, talking |-> {}, fault |-> "none"]

\* CameraFeed.stopCamera: stopDetection and clear the displayed lists.
StopCamera ==
    /\ timers' = stopDetection
    /\ detectionInterval' = Null
    /\ detectedFaces' = <<>>
    /\ detectedBehaviors' = <<>>
    /\ frame' = NoFrame
    /\ UNCHANGED <<pendingWarnings, isInitialized, modelsLoaded, recognizedStudents,
                   lastDetectedFaces, inflight, capturedClass, scored>>
    /\ UNCHANGED <<serverVars, histVars, dashVars, viewVars>>

\* The rest of a timer callback once detectFaces has resolved: behaviors
\* are matched against the cache as it is now, then both callbacks run.
Deliver(cls, path, faces, cache, fr) ==
    /\ lastDetectedFaces' = cache
    /\ detectedFaces' = faces
    /\ detectedBehaviors' = detectBehaviors(cache, fr)
    /\ frame' = [path |-> path, faces |-> fr.faces, mobile |-> fr.mobile,
                 talking |-> fr.talking, fault |-> fr.fault]
    /\ detectionInterval' = TimerAfter(fr.fault)
    /\ \/ WarningRequests(cls, detectedBehaviors') = <<>>
       \/ BagCardinality(pendingWarnings) < MaxPending
    /\ pendingWarnings' =
            pendingWarnings (+) SeqToBag(WarningRequests(cls, detectedBehaviors'))

\* A timer callback in basic mode: detectFacesBasic never awaits anything
\* that yields to another callback, and leaves the cache alone.
CycleBasic(fr) ==
    /\ detectionInterval # Null
    /\ ~modelsLoaded
    /\ Deliver(capturedClass, "basic", detectFacesBasic(fr),
               CacheAfterBasic(detectFacesBasic(fr)), fr)
    /\ UNCHANGED <<isInitialized, modelsLoaded, recognizedStudents, inflight,
                   capturedClass, scored, timers>>
    /\ UNCHANGED <<serverVars, histVars, dashVars, viewVars>>

\* A timer callback in face-api mode begins: it awaits detectAllFaces.
CycleStart ==
    /\ detectionInterval # Null
    /\ modelsLoaded
    /\ Len(inflight) < MaxInflight
    /\ inflight' = Append(inflight, capturedClass)
    /\ UNCHANGED <<pendingWarnings, isInitialized, modelsLoaded, detectionInterval,
                   recognizedStudents, lastDetectedFaces, capturedClass,
                   detectedFaces, detectedBehaviors, frame, scored, timers>>
    /\ UNCHANGED <<serverVars, histVars, dashVars, viewVars>>

\* detectAllFaces settles for one of the waiting callbacks: resolved, the
\* matched faces replace the cache; rejected, detectFacesBasic answers.
CycleFinish(k, apiOk, detections, fr) ==
    /\ k \in DOMAIN inflight
    /\ \A i \in DOMAIN detections :
            \/ detections[i].match = Null
            \/ \E j \in DOMAIN recognizedStudents :
                    detections[i].match = Some(recognizedStudents[j])
    /\ inflight' = [i \in 1..(Len(inflight) - 1) |->
                        IF i < k THEN inflight[i] ELSE inflight[i + 1]]
    /\ IF apiOk
       THEN Deliver(inflight[k], "face-api", MatchedFaces(detections),
                    CacheOf(MatchedFaces(detections)), fr)
       ELSE Deliver(inflight[k], "basic", detectFacesBasic(fr),
                    CacheAfterBasic(detectFacesBasic(fr)), fr)
    /\ UNCHANGED <<isInitialized, modelsLoaded, recognizedStudents, capturedClass,
                   scored, timers>>
    /\ UNCHANGED <<serverVars, histVars, dashVars, viewVars>>

\* POST /api/warnings for one request in flight
PostWarnings(req) ==
    /\ BagIn(req, pendingWarnings)
    /\ Len(behaviorWarnings) < MaxWarnings
    /\ pendingWarnings' = pendingWarnings (-) SetToBag({req})
    /\ behaviorWarnings' = createBehaviorWarning(req)
    /\ UNCHANGED <<classes, attendanceRecords, now, running, histVars, dashVars, viewVars>>
    /\ UNCHANGED <<isInitialized, modelsLoaded, detectionInterval, recognizedStudents,
                   lastDetectedFaces, inflight, capturedClass, detectedFaces,
                   detectedBehaviors, frame, scored, timers>>

\* createWarningMutation's fetch fails before reaching the server.
WarningFetchFails(req) ==
    /\ BagIn(req, pendingWarnings)
    /\ pendingWarnings' = pendingWarnings (-) SetToBag({req})
    /\ UNCHANGED <<serverVars, histVars, dashVars, viewVars>>
    /\ UNCHANGED <<isInitialized, modelsLoaded, detectionInterval, recognizedStudents,
                   lastDetectedFaces, inflight, capturedClass, detectedFaces,
                   detectedBehaviors, frame, scored, timers>>

---------------------------------------------------------------------------
(* Request inputs *)

NullableReqIds == {Null} \cup {Some(i) : i \in ReqIds}
NullableClassIds == {Null} \cup {Some(c) : c \in ClassIds}

Durations == {4}
Thresholds == {Null, Some(-1), Some(0)}
TimePresentValues == {Null, Some(1), Some(3)}

\* Insert data of the attendance specification: the policy fields vary.
PolicyInserts ==
    {[duration |-> d, attendanceThreshold |-> t, isActive |-> Null] :
        d \in Durations, t \in Thresholds}
PolicyUpdates == {[attendanceThreshold |-> t] : t \in Thresholds}

\* Insert data of the class store specification: isActive varies.
LifecycleInserts ==
    {[duration |-> d, attendanceThreshold |-> Null, isActive |-> a] :
        d \in Durations, a \in {Null, Some(TRUE), Some(FALSE)}}
LifecycleUpdates == {[isActive |-> Some(TRUE)], [isActive |-> Some(FALSE)]}

RecordEdits == {[status |-> "absent"], [timePresent |-> Some(1)]}

\* Detection inputs: the registered students, the face-api detections with
\* their best match, and the windows of a frame whose face / phone /
\* talking score passed.
Rosters == {<<"s1", "s2">>}
FaceAt(x, y, m) == [x |-> x, y |-> y, width |-> 100, height |-> 100, match |-> m]
ApiDetections ==
    {<<FaceAt(0, 0, Some("s1"))>>,
     <<FaceAt(0, 0, Some("s1")), FaceAt(300, 0, Some("s2"))>>,
     <<FaceAt(0, 0, Null)>>}
FaceWindows == {<<0, 0>>}
MobileWindows == {<<0, 0>>, <<200, 0>>, <<120, 160>>}
TalkingWindows == {<<210, 0>>}
WarningBodies ==
    [studentId : {"s1", "s2"}, classId : ClassIds,
     warningType : {"mobile", "talking"}, isActive : {Null}]
Frames ==
    {[faces |-> f, mobile |-> m, talking |-> t, fault |-> "none"] :
        f \in {FaceWindows},
        m \in {{}, {<<200, 0>>}, MobileWindows},
        t \in SUBSET TalkingWindows}
\* The frames of a cycle whose face-api detection resolved: the face blocks
\* are not analysed.
ApiFrames == {[fr EXCEPT !.faces = {}] : fr \in Frames}

\* Scan inputs: rosters of up to seven students, face blocks that overlap,
\* lie on two rows and outnumber FaceLimit, and phone / talking windows
\* near cached faces that outnumber their limits.
ScanRosters ==
    {<<>>, <<"s1">>, <<"s1", "s2", "s3">>,
     <<"s1", "s2", "s3", "s4", "s5", "s6", "s7">>}
ScanFaceRow == {<<0, 0>>, <<60, 0>>, <<120, 0>>, <<180, 0>>, <<240, 0>>, <<300, 0>>}
ScanFaceSets ==
    {{}, {<<0, 0>>, <<20, 20>>},
     {<<0, 0>>, <<20, 0>>, <<40, 0>>, <<20, 20>>},
     {<<100, 0>>, <<0, 40>>, <<0, 0>>, <<200, 0>>, <<60, 40>>},
     ScanFaceRow \cup {<<0, 60>>, <<20, 60>>}}
ScanDetections ==
    {<<>>, <<FaceAt(0, 0, Some("s1"))>>,
     <<FaceAt(0, 0, Some("s1")), FaceAt(300, 0, Some("s2")), FaceAt(60, 60, Null)>>}
ScanMobileSets == {{}, {<<160, 0>>}, {<<0, 0>>, <<20, 0>>, <<0, 20>>, <<400, 400>>}}
ScanTalkingSets == {{}, {<<30, 0>>, <<0, 30>>, <<600, 0>>}}
ScanFrames ==
    {[faces |-> f, mobile |-> m, talking |-> t, fault |-> "none"] :
        f \in ScanFaceSets, m \in ScanMobileSets, t \in ScanTalkingSets}
ScanApiFrames == {[fr EXCEPT !.faces = {}] : fr \in ScanFrames}

\* Frames whose analysis throws: in the basic face detection, at the start
\* of detectBehaviors, or between its phone scan and its talking scan.
Faults == {"none", "faces", "behaviors", "talking"}
FaultFrames ==
    {[faces |-> FaceWindows, mobile |-> {<<0, 0>>}, talking |-> t, fault |-> f] :
        t \in {{}, {<<30, 0>>}}, f \in Faults}
ApiFaultFrames == {[fr EXCEPT !.faces = {}] : fr \in {f \in FaultFrames : f.fault # "faces"}}

\* Scored blocks: 60 x 60 pixels, a number of them of one skin colour and
\* the rest of one other colour.  The counts straddle the bounds of the
\* ratio test (720, 2880) and of the count test (200); the colours give a
\* mean brightness below, on, between and above 60 and 200.
BlockPixels == 60 * 60
SkinColours == {<<200, 120, 80>>, <<96, 41, 21>>, <<255, 230, 200>>}
OtherColours ==
    {<<0, 0, 0>>, <<60, 60, 60>>, <<120, 120, 120>>, <<200, 200, 200>>,
     <<255, 255, 255>>, <<110, 100, 90>>}
SkinCounts == {0, 200, 201, 720, 721, 1800, 2879, 2880, 3600}
Blocks ==
    {<<<<sk, n>>, <<ot, BlockPixels - n>>>> :
        sk \in SkinColours, n \in SkinCounts, ot \in OtherColours}

\* The seconds between a record's lastSeen and the render, on both sides
\* of five and of six minutes.
ElapsedSeconds == {0, 299, 300, 301, 330, 359, 360, 361, 900}

---------------------------------------------------------------------------
(* Specifications *)

vars == <<serverVars, histVars, dashVars, detVars, viewVars>>

Init ==
    /\ classes = <<>>
    /\ attendanceRecords = <<>>
    /\ behaviorWarnings = <<>>
    /\ now = 0
    /\ running = <<>>
    /\ finalSnap = NoSnap
    /\ forcedEnd = {}
    /\ currentClass = Null
    /\ isMonitoring = FALSE
    /\ isRecording = FALSE
    /\ startMut = Null
    /\ endMut = EndMutIdle
    /\ toast = Null
    /\ currentData = Null
    /\ autoEnd = Null
    /\ pendingWarnings = EmptyBag
    /\ isInitialized = FALSE
    /\ modelsLoaded = FALSE
    /\ detectionInterval = Null
    /\ recognizedStudents = <<>>
    /\ lastDetectedFaces = <<>>
    /\ inflight = <<>>
    /\ capturedClass = Null
    /\ detectedFaces = <<>>
    /\ detectedBehaviors = <<>>
    /\ frame = NoFrame
    /\ scored = Null
    /\ timers = {}
    /\ shown = Null

\* The attendance routes over classes whose policy varies.
Next ==
    \/ \E ins \in PolicyInserts : PostClasses(ins)
    \/ \E id \in ClassIds, u \in PolicyUpdates : PutClass(id, u)
    \/ \E id \in ClassIds : PostClassStart(id)
    \/ \E id \in ClassIds : PostClassEnd(id)
    \/ \E c \in {Null, Some("c1")}, s \in NullableReqIds,
          t \in TimePresentValues, l \in {Null} :
            PostUpdateFromDetection(c, s, t, l)
    \/ \E id \in 1..MaxRecords, u \in RecordEdits :
            PutAttendance(id, u)
    \/ \E c \in NullableClassIds : PostFinalize(c)

Spec == Init /\ [][Next]_vars

\* The class store alone.
NextClasses ==
    \/ \E ins \in LifecycleInserts : PostClasses(ins)
    \/ \E id \in ClassIds, u \in LifecycleUpdates : PutClass(id, u)
    \/ \E id \in ClassIds : PostClassStart(id)
    \/ \E id \in ClassIds : PostClassEnd(id)
    \/ Tick

SpecClasses == Init /\ [][NextClasses]_vars

Outcomes == {"ok", "error", "reject"}

\* The dashboard starting and ending a class whose records accrue.
NextDashboard ==
    \/ \E ins \in {[duration |-> 4, attendanceThreshold |-> Null, isActive |-> Null]} :
            PostClasses(ins)
    \/ \E c \in ClassIds : HandleClassChange(c)
    \/ HandleStartMonitoring
    \/ \E r \in BOOLEAN : HandleRecordingChange(r)
    \/ \E ok \in BOOLEAN : StartMutSettle(ok)
    \/ \E t \in {Null, Some(3)} :
            PostUpdateFromDetection(Some("c1"), Some("s1"), t, Null)
    \/ HandleStopMonitoring
    \/ \E o \in Outcomes, n \in 0..MaxRecords : EndMutFinalize(o, n)
    \/ \E o \in Outcomes : EndMutEnd(o)

SpecDashboard == Init /\ [][NextDashboard]_vars

\* The dashboard over a class of one minute, with the browser's clock.
NextAutoEnd ==
    \/ \E ins \in {[duration |-> 1, attendanceThreshold |-> Null, isActive |-> Null]} :
            PostClasses(ins)
    \/ \E c \in {"c1"} : HandleClassChange(c)
    \/ HandleStartMonitoring
    \/ \E ok \in BOOLEAN : StartMutSettle(ok)
    \/ HandleStopMonitoring
    \/ \E o \in Outcomes : EndMutFinalize(o, 0)
    \/ \E o \in Outcomes : EndMutEnd(o)
    \/ AutoEndFires
    \/ RefetchCurrent
    \/ TickDashboard

SpecAutoEnd == Init /\ [][NextAutoEnd]_vars

\* The camera feed's detection cycles and the warnings they raise.
NextDetection ==
    \/ \E ins \in {[duration |-> 4, attendanceThreshold |-> Null, isActive |-> Null]} :
            PostClasses(ins)
    \/ \E c \in {"c1"} : HandleClassChange(c)
    \/ \E l \in BOOLEAN, r \in Rosters : Initialize(l, r)
    \/ \E r \in Rosters : StartFaceDetection(r)
    \/ StopCamera
    \/ \E fr \in Frames : CycleBasic(fr)
    \/ CycleStart
    \/ \E k \in 1..MaxInflight, ds \in ApiDetections, fr \in ApiFrames :
            CycleFinish(k, TRUE, ds, fr)
    \/ \E k \in 1..MaxInflight, fr \in Frames :
            CycleFinish(k, FALSE, <<>>, fr)
    \/ \E req \in WarningBodies : PostWarnings(req)
    \/ \E req \in WarningBodies : WarningFetchFails(req)
    \/ \E id \in 1..MaxWarnings : PutWarningDismiss(id)

SpecDetection == Init /\ [][NextDetection]_vars

\* The class settings a ClassControls panel creates a class with: the
\* phone switch on or off, the talking switch off (its default).
FlaggedClasses ==
    {[duration |-> 4, attendanceThreshold |-> Null, isActive |-> Null,
      mobileDetectionEnabled |-> Some(m), talkingDetectionEnabled |-> Some(FALSE)] :
        m \in BOOLEAN}

\* Face-api detection over a class created with its detection switches set.
NextGating ==
    \/ \E ins \in FlaggedClasses : PostClasses(ins)
    \/ \E c \in {"c1"} : HandleClassChange(c)
    \/ \E r \in Rosters : Initialize(TRUE, r)
    \/ \E r \in Rosters : StartFaceDetection(r)
    \/ CycleStart
    \/ \E k \in 1..MaxInflight, ds \in ApiDetections, fr \in ApiFrames :
            CycleFinish(k, TRUE, ds, fr)
    \/ \E req \in WarningBodies : PostWarnings(req)

SpecGating == Init /\ [][NextGating]_vars

\* The scans and the matching of one service over frames with many passing
\* blocks, without a class.
NextScan ==
    \/ \E l \in BOOLEAN, r \in ScanRosters : Initialize(l, r)
    \/ \E r \in ScanRosters : StartFaceDetection(r)
    \/ StopCamera
    \/ \E fr \in ScanFrames : CycleBasic(fr)
    \/ CycleStart
    \/ \E k \in 1..MaxInflight, ds \in ScanDetections, fr \in ScanApiFrames :
            CycleFinish(k, TRUE, ds, fr)
    \/ \E k \in 1..MaxInflight, fr \in ScanFrames :
            CycleFinish(k, FALSE, <<>>, fr)

SpecScan == Init /\ [][NextScan]_vars

\* Detection cycles in which face detection, behavior detection and
\* warning requests fail.
NextFaults ==
    \/ \E ins \in {[duration |-> 4, attendanceThreshold |-> Null, isActive |-> Null]} :
            PostClasses(ins)
    \/ \E c \in {"c1"} : HandleClassChange(c)
    \/ \E l \in BOOLEAN, r \in Rosters : Initialize(l, r)
    \/ \E r \in Rosters : StartFaceDetection(r)
    \/ StopCamera
    \/ \E fr \in FaultFrames : CycleBasic(fr)
    \/ CycleStart
    \/ \E k \in 1..MaxInflight, fr \in ApiFaultFrames :
            CycleFinish(k, TRUE, <<FaceAt(0, 0, Some("s1"))>>, fr)
    \/ \E k \in 1..MaxInflight, fr \in FaultFrames :
            CycleFinish(k, FALSE, <<>>, fr)
    \/ \E req \in WarningBodies : PostWarnings(req)
    \/ \E req \in WarningBodies : WarningFetchFails(req)

SpecFaults == Init /\ [][NextFaults]_vars

\* The face scan scoring blocks.
NextScore == \E region \in Blocks : ScoreBlock(region)

SpecScore == Init /\ [][NextScore]_vars

\* Finalize passes over the records of two classes.
NextFinalize ==
    \/ \E ins \in {[duration |-> 4, attendanceThreshold |-> Null, isActive |-> Null]} :
            PostClasses(ins)
    \/ \E c \in ClassIds, t \in TimePresentValues :
            PostUpdateFromDetection(Some(c), Some("s1"), t, Null)
    \/ \E c \in NullableClassIds : PostFinalize(c)
    \/ \E w \in {[studentId |-> "s1", classId |-> "c1", warningType |-> "mobile",
                   isActive |-> Null]} : StoreWarning(w)

SpecFinalize == Init /\ [][NextFinalize]_vars

\* The attendance routes as the event loop runs them: handlers suspend at
\* the await of each storage call.
NextRequests ==
    \/ \E ins \in {[duration |-> 4, attendanceThreshold |-> Null, isActive |-> Null]} :
            ClassCreateRequest(ins)
    \/ \E c \in ClassIds : FinalizeBegin(c)
    \/ \E k \in 1..MaxRunning : FinalizeResume(k)
    \/ \E s \in ReqIds, t \in TimePresentValues : UpdateBegin("c1", s, t)
    \/ \E k \in 1..MaxRunning : UpdateResume(k)
    \/ \E id \in 1..MaxRecords, u \in RecordEdits : RecordEditRequest(id, u)

SpecRequests == Init /\ [][NextRequests]_vars

\* The attendance table rendering the records detection events leave.
NextDisplay ==
    \/ \E s \in NullableReqIds, t \in TimePresentValues :
            PostUpdateFromDetection(Some("c1"), s, t, Null)
    \/ \E id \in 1..MaxRecords, u \in RecordEdits : PutAttendance(id, u)
    \/ \E id \in 1..MaxRecords, e \in ElapsedSeconds : RenderRow(id, e)

SpecDisplay == Init /\ [][NextDisplay]_vars

---------------------------------------------------------------------------
(* Claims about the class store *)

ActiveClasses == {c \in DOMAIN classes : TruthyBool(classes[c].isActive)}

\* C1: after any sequence of createClass, updateClass, startClass and
\* endClass, at most one class has isActive = true.
C1_AtMostOneActive == Cardinality(ActiveClasses) <= 1

\* C2: startClass(B) for an existing class B while a different class A is
\* active leaves A inactive with endedAt set to the time of the call, and B
\* active with startedAt set to it and endedAt cleared.
C2_StartForceEnds ==
    [][\A a, b \in ClassIds :
          (/\ a # b
           /\ a \in ActiveClasses
           /\ b \in DOMAIN classes
           /\ PostClassStart(b))
          => /\ classes'[a].isActive = Some(FALSE)
             /\ classes'[a].endedAt = Some(now)
             /\ classes'[b].isActive = Some(TRUE)
             /\ classes'[b].startedAt = Some(now)
             /\ classes'[b].endedAt = Null]_vars

\* C2 witness: the last class-store call was a startClass that force-ended
\* another class, after the clock had advanced.
C2_Witness ==
    \E a \in forcedEnd, b \in ActiveClasses :
        /\ a # b
        /\ classes[a].endedAt = Some(now)
        /\ classes[b].startedAt = Some(now)
        /\ now > 0

---------------------------------------------------------------------------
(* Claims about attendance accrual and the finalize pass *)

Finalized(c) == c \in DOMAIN classes /\ finalSnap[c] # Null

\* The rule as the specification words it: the class's own threshold
\* (75 when unset), inclusive; late from 25 percent with time accrued.
StatedStatus(record, classInfo) ==
    LET timePresent == IF record.timePresent = Null THEN 0 ELSE Val(record.timePresent)
        threshold == IF classInfo.attendanceThreshold = Null
                     THEN DefaultThreshold
                     ELSE Val(classInfo.attendanceThreshold)
    IN IF PctGE(timePresent, classInfo.duration, threshold) THEN "present"
       ELSE IF timePresent > 0 /\ PctGE(timePresent, classInfo.duration, LatePercentage)
       THEN "late"
       ELSE "absent"

\* C3: once the finalize pass has run for a class, every record of the class
\* has the status the stated rule gives (present at or above the class's
\* attendanceThreshold, else late with time accrued and at least 25 percent,
\* else absent), for every threshold the class can hold.
C3_FinalizeRule ==
    \A c \in ClassIds : Finalized(c) =>
        \A i \in getAttendanceRecords(c) :
            attendanceRecords[i].status = StatedStatus(attendanceRecords[i], classes[c])

\* C4: a finalize pass run again, with no detection update, record edit or
\* class-setting change since the previous pass, leaves the class's records
\* as the previous pass left them.
C4_FinalizeIdempotent ==
    \A c \in ClassIds : Finalized(c) =>
        RecordsOf(attendanceRecords, c) = Val(finalSnap[c]).records

\* C4 witness: a second pass has run over a class that has a record which
\* the first pass moved away from its provisional status.
C4_Witness ==
    \E c \in ClassIds :
        /\ Finalized(c)
        /\ Val(finalSnap[c]).runs = 2
        /\ \E i \in getAttendanceRecords(c) : attendanceRecords[i].status # "present"

\* C5: a record whose timePresent is 0 or unset is finalized to absent,
\* whatever the class's attendanceThreshold.
C5_ZeroTimeAbsent ==
    \A c \in ClassIds : Finalized(c) =>
        \A i \in getAttendanceRecords(c) :
            ~TruthyNum(attendanceRecords[i].timePresent)
                => attendanceRecords[i].status = "absent"

\* C6: after any sequence of detection events there is at most one
\* attendance record per (studentId, classId) pair.
C6_OneRecordPerPair ==
    \A i, j \in RecordIds :
        (/\ attendanceRecords[i].studentId = attendanceRecords[j].studentId
         /\ attendanceRecords[i].classId = attendanceRecords[j].classId)
        => i = j

StoredTime(recs, i) == Val(OrElse(recs[i].timePresent, Some(0)))

DetectionStep ==
    \E c \in {Null, Some("c1")}, s \in NullableReqIds, t \in TimePresentValues :
        PostUpdateFromDetection(c, s, t, Null)

\* C7: a detection update never lowers the timePresent stored in a record
\* of a class whose session is active.
C7_TimePresentMonotone ==
    [][DetectionStep =>
        \A i \in RecordIds :
            attendanceRecords[i].classId \in ActiveClasses
                => StoredTime(attendanceRecords', i) >= StoredTime(attendanceRecords, i)]_vars

\* C8: when endClass or startClass takes a class from active to ended, every
\* record of the class then has the status the finalize rule gives for its
\* accrued timePresent.
C8_EndRunsFinalize ==
    [][\A c \in ClassIds :
          (/\ c \in ActiveClasses
           /\ \E id \in ClassIds : PostClassEnd(id) \/ PostClassStart(id)
           /\ ~TruthyBool(classes'[c].isActive))
          => \A i \in getAttendanceRecords(c) :
                attendanceRecords'[i].status = FinalStatus(attendanceRecords'[i], classes'[c])]_vars

---------------------------------------------------------------------------
(* Claims about the dashboard's end of session *)

\* C9: when the finalize call of an end-of-session fails, the end-of-session
\* does not report success: the mutation succeeds (and toasts "Class Ended")
\* only when the finalize response was ok.
C9_FinalizeFailurePropagates ==
    (endMut.pc = "success" /\ toast = Some("Class Ended"))
        => endMut.finalizeOk = Some(TRUE)

---------------------------------------------------------------------------
(* Claims about behavior matching *)

\* No cached face lies less than 200px from the window at (x, y).
NoFaceWithin(x, y) ==
    \A i \in DOMAIN lastDetectedFaces :
        DistSq(lastDetectedFaces[i], x, y) >= 200 * 200

Reported(type, p) ==
    \E i \in DOMAIN detectedBehaviors :
        /\ detectedBehaviors[i].type = type
        /\ detectedBehaviors[i].boundingBox = [x |-> p[1], y |-> p[2]]

UnmatchedDropped ==
    /\ \A i \in DOMAIN detectedBehaviors : detectedBehaviors[i].studentId # Null
    /\ \A p \in frame.mobile : NoFaceWithin(p[1], p[2]) => ~Reported("mobile", p)
    /\ \A p \in frame.talking : NoFaceWithin(p[1], p[2]) => ~Reported("talking", p)

\* Every warning request a step issues is for a behavior the cycle returned,
\* and every warning a step stores answers a request that was in flight.
WarningsFromReturned ==
    /\ \A req \in BagToSet(pendingWarnings') :
            CopiesIn(req, pendingWarnings') > CopiesIn(req, pendingWarnings)
                => \E i \in DOMAIN detectedBehaviors' :
                        /\ detectedBehaviors'[i].studentId = Some(req.studentId)
                        /\ detectedBehaviors'[i].type = req.warningType
    /\ Len(behaviorWarnings') > Len(behaviorWarnings)
            => \E req \in BagToSet(pendingWarnings) :
                    behaviorWarnings' = createBehaviorWarning(req)

\* C10: a behavior candidate with no cached face within 200px of it is
\* dropped: it is not among the returned behaviors, every returned behavior
\* carries a studentId, and no warning is created for it (warnings are
\* requested only for returned behaviors, stored only for such requests).
C10_UnmatchedCandidateDropped ==
    [](UnmatchedDropped) /\ [][WarningsFromReturned]_vars

\* A frame whose phone candidate at (120, 160) has no cached face within
\* 200px and whose candidate at (200, 0) is exactly 200px from the only
\* cached face: only the candidate at (0, 0) was returned and requested.
C10_Witness ==
    /\ frame.mobile = MobileWindows
    /\ Len(lastDetectedFaces) = 1
    /\ NoFaceWithin(120, 160)
    /\ Len(detectedBehaviors) = 1
    /\ Reported("mobile", <<0, 0>>)
    /\ BagCardinality(pendingWarnings) = 1

---------------------------------------------------------------------------
(* Claims about the face scan and the ordinal matching *)

\* The step is a cycle that ran the basic face detection on frame fr.
BasicCycle(fr) ==
    /\ frame' = [path |-> "basic", faces |-> fr.faces, mobile |-> fr.mobile,
                 talking |-> fr.talking, fault |-> fr.fault]
    /\ \/ CycleBasic(fr)
       \/ \E k \in 1..MaxInflight : CycleFinish(k, FALSE, <<>>, fr)

\* With R registered students and F accepted regions, the faces delivered
\* are the first min(R, F) regions, the i-th carrying the i-th student.
OrdinalResult(regions, roster, faces) ==
    /\ Len(faces) = Min({Len(roster), Len(regions)})
    /\ \A i \in DOMAIN faces :
            /\ faces[i].x = regions[i].x /\ faces[i].y = regions[i].y
            /\ faces[i].studentId = Some(roster[i])

\* C11: ordinal matching gives the i-th accepted face region, in scan order,
\* the i-th student of the roster: exactly the first min(R, F) regions get
\* an identity, the remaining regions get none.
C11_OrdinalMatching ==
    [][\A fr \in ScanFrames :
          BasicCycle(fr) =>
              OrdinalResult(analyzeImageForFaces(fr.faces), recognizedStudents,
                            detectedFaces')]_vars

\* Three registered students and five accepted regions: three faces.
C11_Witness ==
    /\ frame.path = "basic"
    /\ Len(recognizedStudents) = 3
    /\ Len(analyzeImageForFaces(frame.faces)) = 5
    /\ Len(detectedFaces) = 3
    /\ detectedFaces[1].studentId = Some("s1")
    /\ detectedFaces[3].studentId = Some("s3")

---------------------------------------------------------------------------
(* Claims about the detection loop *)

\* C12: no two detection cycles of one service execute concurrently: at
\* most one timer callback is between its start and its callbacks.
C12_NoConcurrentCycles == Len(inflight) <= 1

\* A waiting timer callback resumed: the only step that takes a callback
\* out of inflight is the one that runs onFacesDetected and
\* onBehaviorDetected for it.
CallbacksInvoked == Len(inflight') < Len(inflight)

\* C13: after stopDetection has returned (and until detection is started
\* again) no cycle starts and no cycle that was in flight at the stop
\* invokes onFacesDetected or onBehaviorDetected.
C13_NoCallbackAfterStop ==
    [][detectionInterval = Null =>
          /\ ~CallbacksInvoked
          /\ Len(inflight') <= Len(inflight)]_vars

---------------------------------------------------------------------------
(* Claims about behavior warnings *)

\* The query the warning panel issues for a class's active warnings.
ActiveWarningsOf(classId) == GetWarnings(Some(classId), Some("true"))

InSeq(e, seq) == \E i \in DOMAIN seq : seq[i] = e

\* After the step, warning w is among its class's active warnings.
ListedActiveNext(w) ==
    \E c \in ClassIds : c = w.classId /\ InSeq(w, ActiveWarningsOf(c)')

\* C14: a warning created from a detected behavior has isActive = true
\* from its creation until it is dismissed and isActive = false afterwards;
\* so a warning not yet dismissed is returned by the query for its class's
\* active warnings.
C14_WarningActiveUntilDismissed ==
    [][/\ Len(behaviorWarnings') > Len(behaviorWarnings) =>
            LET w == behaviorWarnings'[Len(behaviorWarnings')]
            IN  w.isActive = Some(TRUE) /\ ListedActiveNext(w)
       /\ \A i \in DOMAIN behaviorWarnings :
            IF PutWarningDismiss(i)
            THEN behaviorWarnings'[i].isActive = Some(FALSE)
            ELSE behaviorWarnings[i].isActive = Some(TRUE)
                    => /\ behaviorWarnings'[i].isActive = Some(TRUE)
                       /\ ListedActiveNext(behaviorWarnings'[i])]_vars

---------------------------------------------------------------------------
(* Claims about detection events *)

StoredCount(recs, i) == Val(OrElse(recs[i].detectionCount, Some(0)))

\* C15: a detection event for a (student, class) pair that already has an
\* attendance record sets that record's lastSeen to the event's time and
\* increases its detectionCount by exactly one.
C15_DetectionCounted ==
    [][\A s \in ReqIds, t \in TimePresentValues :
          PostUpdateFromDetection(Some("c1"), Some(s), t, Null) =>
              \A i \in DOMAIN attendanceRecords :
                  (attendanceRecords[i].studentId = s /\ attendanceRecords[i].classId = "c1")
                      => /\ attendanceRecords'[i].lastSeen = Some(now)
                         /\ StoredCount(attendanceRecords', i)
                                = StoredCount(attendanceRecords, i) + 1]_vars

---------------------------------------------------------------------------
(* Claims about the attribution of behaviors *)

\* Twice the centre of a face box and of a behavior window (40 x 80 for a
\* phone, 60 x 60 for talking), and the squared distance between them.
FaceCentre2(face) == <<2 * face.x + face.width, 2 * face.y + face.height>>
WindowCentre2(b) ==
    IF b.type = "mobile"
    THEN <<2 * b.boundingBox.x + 40, 2 * b.boundingBox.y + 80>>
    ELSE <<2 * b.boundingBox.x + 60, 2 * b.boundingBox.y + 60>>
CentreDistSq2(face, b) ==
    (FaceCentre2(face)[1] - WindowCentre2(b)[1]) * (FaceCentre2(face)[1] - WindowCentre2(b)[1])
    + (FaceCentre2(face)[2] - WindowCentre2(b)[2]) * (FaceCentre2(face)[2] - WindowCentre2(b)[2])

\* C16: a behavior is attributed to the cached face whose centre is closest
\* to the candidate's centre, and only when that distance is within 200px.
\* (After a cycle on the face-api path the cache holds the positions of the
\* faces that cycle delivered, in the same order.)
C16_NearestByCentre ==
    frame.path = "face-api" =>
        \A i \in DOMAIN detectedBehaviors :
            \E f \in DOMAIN detectedFaces :
                /\ detectedBehaviors[i].studentId = detectedFaces[f].studentId
                /\ CentreDistSq2(detectedFaces[f], detectedBehaviors[i]) <= 400 * 400
                /\ \A g \in DOMAIN detectedFaces :
                        CentreDistSq2(detectedFaces[f], detectedBehaviors[i])
                            <= CentreDistSq2(detectedFaces[g], detectedBehaviors[i])

\* The step is a detection cycle delivering its results.
CycleStep == CallbacksInvoked \/ \E fr \in ScanFrames : BasicCycle(fr)

\* C17: in every cycle after the first, whichever face detection path ran,
\* the behaviors are matched against the faces the preceding cycle
\* delivered, and the cycle leaves its own face list in the cache for the
\* next cycle.
C17_MatchAgainstPrecedingCycle ==
    [][(CycleStep /\ frame.path # "none") =>
          /\ detectedBehaviors' = detectBehaviors(CacheOf(detectedFaces), frame')
          /\ lastDetectedFaces' = CacheOf(detectedFaces')]_vars

---------------------------------------------------------------------------
(* Claims about failures inside the loop *)

\* Some timer callback can start or deliver.
CycleCanRun ==
    \/ \E fr \in FaultFrames : CycleBasic(fr)
    \/ CycleStart
    \/ \E k \in 1..MaxInflight, fr \in FaultFrames : CycleFinish(k, FALSE, <<>>, fr)

\* C18: a failure inside a cycle or in a request it caused does not abort
\* the loop: the timer changes only when detection is started or stopped,
\* and while it is scheduled a cycle can still run and deliver.
C18_FailuresKeepLoop ==
    /\ [][detectionInterval' # detectionInterval =>
             (StopCamera \/ \E r \in Rosters : StartFaceDetection(r))]_vars
    /\ [](detectionInterval # Null => ENABLED CycleCanRun)

\* The face-api call was rejected and the basic detection threw as well:
\* the cycle still delivered behaviors matched against the cache, and the
\* timer is still scheduled.
C18_Witness ==
    /\ frame.fault = "faces"
    /\ frame.path = "basic"
    /\ modelsLoaded
    /\ detectedFaces = <<>>
    /\ detectedBehaviors # <<>>
    /\ detectionInterval # Null

---------------------------------------------------------------------------
(* Claims about the class timestamps *)

StartOrEndCall == \E id \in ClassIds : PostClassStart(id) \/ PostClassEnd(id)

\* C19: over startClass and endClass calls, a class's startedAt changes
\* only when the class goes from inactive to active and its endedAt changes
\* only when it goes from active to inactive (clearing endedAt when an
\* ended class is started again is not counted as a change).
C19_TimestampsOncePerTransition ==
    [][StartOrEndCall =>
          \A c \in DOMAIN classes :
              /\ classes'[c].startedAt # classes[c].startedAt
                    => ~TruthyBool(classes[c].isActive) /\ TruthyBool(classes'[c].isActive)
              /\ (classes'[c].endedAt # classes[c].endedAt /\ classes'[c].endedAt # Null)
                    => TruthyBool(classes[c].isActive) /\ ~TruthyBool(classes'[c].isActive)]_vars

---------------------------------------------------------------------------
(* Claims about the scan caps *)

\* Block q is visited before block p by the nested y / x loops.
Precedes(q, p) == q[2] < p[2] \/ (q[2] = p[2] /\ q[1] < p[1])

FaceDelivered(p) ==
    \E i \in DOMAIN detectedFaces : detectedFaces[i].x = p[1] /\ detectedFaces[i].y = p[2]

\* Block q lies less than 40px from block p on both axes.
TooClose(q, p) ==
    /\ q[1] - p[1] < 40 /\ p[1] - q[1] < 40
    /\ q[2] - p[2] < 40 /\ p[2] - q[2] < 40

Count(type) ==
    Cardinality({i \in DOMAIN detectedBehaviors : detectedBehaviors[i].type = type})

\* The behaviors of one type are the first matched windows in scan order.
FirstInScanOrder(type, windows) ==
    \A p \in windows, q \in windows :
        (Reported(type, p) /\ Precedes(q, p) /\ ~NoFaceWithin(q[1], q[2]))
            => Reported(type, q)

\* C20: the scans respect their caps, each keeping the first ones in
\* raster scan order: at most 6 accepted face regions, at most 2 phone
\* detections and at most 1 talking detection, hence at most 3 behaviors
\* per cycle.
C20_ScanCaps ==
    /\ Count("mobile") <= 2
    /\ Count("talking") <= 1
    /\ Len(detectedBehaviors) <= 3
    /\ FirstInScanOrder("mobile", frame.mobile)
    /\ FirstInScanOrder("talking", frame.talking)
    /\ frame.path = "basic" =>
          /\ Len(detectedFaces) <= 6
          /\ \A p \in frame.faces, q \in frame.faces :
                (FaceDelivered(p) /\ Precedes(q, p))
                    => \/ FaceDelivered(q)
                       \/ \E r \in frame.faces :
                            FaceDelivered(r) /\ Precedes(r, q) /\ TooClose(q, r)

\* Seven non-overlapping face blocks with seven registered students, three
\* phone windows and two talking windows near a cached face: six faces, two
\* phone detections and one talking detection are delivered.
C20_Witness ==
    /\ frame.path = "basic"
    /\ Len(recognizedStudents) = 7
    /\ Cardinality(frame.faces) = 8
    /\ Len(detectedFaces) = 6
    /\ Cardinality({p \in frame.mobile : ~NoFaceWithin(p[1], p[2])}) = 3
    /\ Cardinality({p \in frame.talking : ~NoFaceWithin(p[1], p[2])}) = 2
    /\ Count("mobile") = 2
    /\ Count("talking") = 1

---------------------------------------------------------------------------
(* Claims about the suppression of overlapping face blocks *)

\* Block p is among the faces.
AmongFaces(faces, p) == \E i \in DOMAIN faces : faces[i].x = p[1] /\ faces[i].y = p[2]

\* Block p is rejected: one of the faces, visited before it, lies less
\* than 40px from it on both axes.
Suppressed(blocks, faces, p) ==
    \E q \in blocks : AmongFaces(faces, q) /\ Precedes(q, p) /\ TooClose(q, p)

\* The blocks the scan had visited when it accepted the last of the faces;
\* all of them when the list was cut neither by the cap nor by the roster.
Decided(blocks, roster, faces) ==
    IF Len(faces) < Min({FaceLimit, Len(roster)})
    THEN blocks
    ELSE {p \in blocks :
            \E d \in blocks : AmongFaces(faces, d) /\ (p = d \/ Precedes(p, d))}

GreedyResult(blocks, roster, faces) ==
    /\ \A p \in Decided(blocks, roster, faces) :
            AmongFaces(faces, p) <=> ~Suppressed(blocks, faces, p)
    /\ \A i, j \in DOMAIN faces :
            i # j => \/ Abs(faces[i].x - faces[j].x) >= 40
                     \/ Abs(faces[i].y - faces[j].y) >= 40

\* C21: the face scan suppresses greedily in raster order: a block whose
\* face score passed is accepted exactly when no block accepted before it
\* has its top-left less than 40px away on both axes, so any two accepted
\* blocks differ by at least 40px in x or in y.
C21_GreedySuppression ==
    [][\A fr \in ScanFrames :
          BasicCycle(fr) => GreedyResult(fr.faces, recognizedStudents, detectedFaces')]_vars

\* Blocks at x = 0, 20 and 40 on one row and one at (20, 20): the block at
\* (40, 0) is accepted although the rejected block at (20, 0) is 20px away.
C21_Witness ==
    /\ frame.path = "basic"
    /\ frame.faces = {<<0, 0>>, <<20, 0>>, <<40, 0>>, <<20, 20>>}
    /\ Len(recognizedStudents) = 3
    /\ Len(detectedFaces) = 2
    /\ FaceDelivered(<<0, 0>>)
    /\ FaceDelivered(<<40, 0>>)

---------------------------------------------------------------------------
(* Claims about the face score *)

SkinRatioHolds(st) ==
    5 * st.skinPixels > st.totalPixels /\ 5 * st.skinPixels < 4 * st.totalPixels
BrightnessHolds(st) ==
    st.brightness3 > 180 * st.totalPixels /\ st.brightness3 < 600 * st.totalPixels
SkinCountHolds(st) == st.skinPixels > 200

Holding(st) ==
    (IF SkinRatioHolds(st) THEN 1 ELSE 0) + (IF BrightnessHolds(st) THEN 1 ELSE 0)
        + (IF SkinCountHolds(st) THEN 1 ELSE 0)

\* C22: the face score of a 60 x 60 block is exactly 1.0 when the skin ratio
\* is in (0.2, 0.8), the mean brightness is in (60, 200) and more than 200
\* pixels are skin, exactly 0.0 when none of the three holds, and in
\* general the sum of 0.4, 0.3 and 0.3 over the conditions that hold; a
\* block passes the threshold (score > 0.6) only when at least two hold.
C22_FaceScore ==
    scored # Null =>
        LET st == Val(scored).stats
            score == Val(scored).score
        IN  /\ Holding(st) = 3 => score = 10
            /\ Holding(st) = 0 => score = 0
            /\ score = (IF SkinRatioHolds(st) THEN 4 ELSE 0)
                        + (IF BrightnessHolds(st) THEN 3 ELSE 0)
                        + (IF SkinCountHolds(st) THEN 3 ELSE 0)
            /\ Val(scored).accepted => Holding(st) >= 2

\* A block with 2880 skin pixels of moderate brightness: the ratio is 0.8,
\* outside its interval, the other two conditions hold, the score is 0.6
\* and the block does not pass.
C22_Witness ==
    /\ scored # Null
    /\ Val(scored).stats.skinPixels = 2880
    /\ BrightnessHolds(Val(scored).stats)
    /\ Val(scored).score = 6
    /\ ~Val(scored).accepted

---------------------------------------------------------------------------
(* Claims about the attendance table *)

\* C23: whenever the time since a tracked record's lastSeen is more than 5
\* minutes the record is surfaced as not_detected, and whenever it is at
\* most 5 minutes (with timePresent > 0 and no warning) it is not;
\* computing the display changes no stored record and no stored warning.
C23_NotDetectedDerived ==
    /\ [](\A sh \in {shown} : (sh # Null /\ Val(sh).elapsed # Null) =>
            /\ Val(Val(sh).elapsed) > 5 * 60 => Val(sh).badge = "not_detected"
            /\ (/\ Val(Val(sh).elapsed) <= 5 * 60
                /\ TruthyNum(attendanceRecords[Val(sh).record].timePresent)
                /\ ~Val(sh).hasWarnings) => Val(sh).badge # "not_detected")
    /\ [][(\E id \in 1..MaxRecords, e \in ElapsedSeconds : RenderRow(id, e))
            => UNCHANGED <<attendanceRecords, behaviorWarnings>>]_vars

---------------------------------------------------------------------------
(* Claims about the matching strategy *)

\* C24: the identity-matching strategy is fixed for a monitoring session:
\* a cycle produces its face list by the strategy (descriptor matching on
\* the face-api path, ordinal matching on the basic path) of the cycle
\* before it in the session, also after an error.
C24_StrategyFixed ==
    [][(frame.path # "none" /\ frame'.path # "none") => frame'.path = frame.path]_vars

---------------------------------------------------------------------------
(* Claims about concurrent attendance requests *)

\* The step is the answer of a finalize handler that ran its loop.
FinalizeAnswers ==
    \E k \in DOMAIN running :
        /\ running[k].route = "finalize"
        /\ running[k].pc = "loop"
        /\ running[k].i > Len(running[k].records)
        /\ FinalizeResume(k)

---------------------------------------------------------------------------
(* Claims about the effect of the finalize pass *)

KeptFields == {"timePresent", "lastSeen", "detectionCount", "studentId", "classId"}

\* C26: the finalize pass changes nothing but the status of the records of
\* the given class: their other fields, every record of every other
\* class, the classes and the warnings are unchanged, no record is created
\* or removed, and for an unknown classId nothing changes at all.
C26_FinalizeFrame ==
    [][\A c \in NullableClassIds :
          PostFinalize(c) =>
            /\ classes' = classes
            /\ behaviorWarnings' = behaviorWarnings
            /\ Len(attendanceRecords') = Len(attendanceRecords)
            /\ \A i \in RecordIds :
                    /\ \A f \in KeptFields :
                            attendanceRecords'[i][f] = attendanceRecords[i][f]
                    /\ (c = Null \/ attendanceRecords[i].classId # Val(c))
                            => attendanceRecords'[i] = attendanceRecords[i]
            /\ (c = Null \/ Val(c) \notin DOMAIN classes)
                    => attendanceRecords' = attendanceRecords]_vars

\* Class c1 was finalized, which moved its record to absent, while the
\* record of c2, with no time accrued either, and the stored warning are
\* as they were.
C26_Witness ==
    /\ Finalized("c1")
    /\ finalSnap["c2"] = Null
    /\ Len(behaviorWarnings) = 1
    /\ \E i, j \in RecordIds :
            /\ attendanceRecords[i].classId = "c1"
            /\ attendanceRecords[i].status = "absent"
            /\ attendanceRecords[j].classId = "c2"
            /\ ~TruthyNum(attendanceRecords[j].timePresent)
            /\ attendanceRecords[j].status = "present"

---------------------------------------------------------------------------
(* Claims about the detection timer *)

StartStep == \E r \in Rosters : StartFaceDetection(r)

\* C27: a service has at most one detection timer at any time: it holds
\* one after a startDetection on an initialized service and none after a
\* stopDetection; startDetection on a service that is not initialized
\* schedules no timer and invokes no callback.
C27_SingleTimer ==
    /\ [](/\ Cardinality(timers) <= 1
          /\ timers = IF detectionInterval = Null THEN {} ELSE {Val(detectionInterval)})
    /\ [][/\ (StartStep /\ isInitialized) => Cardinality(timers') = 1
          /\ (StartStep /\ ~isInitialized) =>
                /\ timers' = {}
                /\ UNCHANGED <<detectedFaces, detectedBehaviors, pendingWarnings>>
          /\ StopCamera => timers' = {}
          /\ timers' # timers => (StartStep \/ StopCamera)]_vars

\* Detection was started while no class was selected and started again,
\* with a class, while a callback of the first start was still waiting:
\* one timer is live.
C27_Witness ==
    /\ isInitialized
    /\ inflight = <<Null>>
    /\ capturedClass = Some("c1")
    /\ Cardinality(timers) = 1
    /\ detectionInterval # Null

---------------------------------------------------------------------------
(* Claims about the basic mode *)

WarningStored == Len(behaviorWarnings') > Len(behaviorWarnings)

\* C28: when the face-api models are not loaded, the last-faces cache
\* stays empty in every cycle, so detectBehaviors returns an empty list in
\* every cycle and no behavior warning is ever created, whatever the
\* frames contain.
C28_BasicModeRaisesNothing ==
    /\ [](~modelsLoaded =>
            /\ lastDetectedFaces = <<>>
            /\ detectedBehaviors = <<>>
            /\ pendingWarnings = EmptyBag)
    /\ [][~modelsLoaded => ~WarningStored]_vars

\* A basic-mode cycle, with a class selected, delivered a face from a
\* frame with phone and talking candidates at and around that face.
C28_Witness ==
    /\ isInitialized
    /\ ~modelsLoaded
    /\ capturedClass # Null
    /\ frame.path = "basic"
    /\ detectedFaces # <<>>
    /\ frame.mobile = MobileWindows
    /\ frame.talking # {}

---------------------------------------------------------------------------
\* C29: while the dashboard monitors a started class, the class is ended
\* automatically: once startedAt + duration minutes have passed and no
\* timeout of the effect is left to run, the stop handler has run (the end
\* mutation was requested for the class), and the end of the class is
\* requested only after finalize was.
AutoEndOverdue(c) ==
    /\ isMonitoring
    /\ currentClass = Some(c)
    /\ c \in DOMAIN classes
    /\ TruthyBool(classes[c].isActive)
    /\ classes[c].startedAt # Null
    /\ now > Val(classes[c].startedAt) + classes[c].duration
    /\ autoEnd = Null

StopRequested(c) ==
    /\ endMut.classId = Some(c)
    /\ endMut.pc \in {"finalize", "end", "error"}

C29_AutoEnd ==
    /\ [](\A c \in ClassIds : AutoEndOverdue(c) => StopRequested(c))
    /\ [][endMut'.pc = "end" /\ endMut.pc # "end" => endMut.pc = "finalize"]_vars

---------------------------------------------------------------------------
\* C30: the per-class detection flags gate the warnings: while the current
\* class has mobileDetectionEnabled = false no warning of type mobile is
\* requested for it, and while it has talkingDetectionEnabled = false none
\* of type talking is.
FlagOff(data, warningType) ==
    CASE warningType = "mobile"  -> data.mobileDetectionEnabled = Some(FALSE)
      [] warningType = "talking" -> data.talkingDetectionEnabled = Some(FALSE)

Requested(req) == CopiesIn(req, pendingWarnings') > CopiesIn(req, pendingWarnings)

C30_FlagsGateWarnings ==
    [][\A req \in WarningBodies :
          (/\ Requested(req)
           /\ currentData # Null
           /\ currentClass = Some(req.classId)
           /\ classes[req.classId] = Val(currentData))
          => ~FlagOff(Val(currentData), req.warningType)]_vars

====
